---- MODULE Spec2Model ----
(***************************************************************************)
(* Model of the ncc reward-campaign scraper (src/run_firefox.py,           *)
(* src/config.py).                                                         *)
(*                                                                         *)
(* Strings are finite sequences of atoms.  An atom stands for a fixed run  *)
(* of characters ("https", "/", "naver", ...); every delimiter the code    *)
(* looks for (":" "/" "?" "#" "=" "&" " ") is an atom of its own, and no   *)
(* keyword the code searches for lies inside or across other atoms, so a   *)
(* Python substring test is a contiguous-subsequence test here.            *)
(***************************************************************************)
EXTENDS Integers, Sequences, FiniteSets, TLC

(***************************************************************************)
(* String helpers (Python str operations on atom sequences)                *)
(***************************************************************************)

\* s.startswith(pre)
StartsWith(s, pre) ==
    /\ Len(pre) <= Len(s)
    /\ SubSeq(s, 1, Len(pre)) = pre

\* sub in s
Contains(s, sub) ==
    \E i \in 1..(Len(s) + 1) :
        /\ i + Len(sub) - 1 <= Len(s)
        /\ SubSeq(s, i, i + Len(sub) - 1) = sub

\* index of the first atom of s that is in set D, or Len(s)+1 when there is none
FirstIn(s, D) ==
    IF \E i \in 1..Len(s) : s[i] \in D
    THEN CHOOSE i \in 1..Len(s) : s[i] \in D /\ \A k \in 1..(i - 1) : s[k] \notin D
    ELSE Len(s) + 1

\* s[i:] (1-based, inclusive)
Tail_(s, i) == SubSeq(s, i, Len(s))

\* str.lower() on one atom: the atoms of the model that hold upper-case letters
LowerAtom(a) ==
    CASE a = "EVENT" -> "event"
      [] a = "Point" -> "point"
      [] a = "HTTPS" -> "https"
      [] OTHER -> a

\* str.lower()
Lower(s) == [i \in 1..Len(s) |-> LowerAtom(s[i])]

\* the white-space atoms removed by str.strip()
Whitespace == {" "}

RECURSIVE LStrip(_)
LStrip(s) == IF s # <<>> /\ Head(s) \in Whitespace THEN LStrip(Tail(s)) ELSE s

RECURSIVE RStrip(_)
RStrip(s) ==
    IF s # <<>> /\ s[Len(s)] \in Whitespace THEN RStrip(SubSeq(s, 1, Len(s) - 1)) ELSE s

\* str.strip()
Strip(s) == LStrip(RStrip(s))

\* s.split(d): the pieces of s between occurrences of atom d
RECURSIVE Split(_, _)
Split(s, d) ==
    LET i == FirstIn(s, {d})
    IN  IF i > Len(s) THEN <<s>>
        ELSE <<SubSeq(s, 1, i - 1)>> \o Split(Tail_(s, i + 1), d)

(***************************************************************************)
(* urllib.parse as the code uses it                                        *)
(***************************************************************************)

\* atoms made only of scheme characters (letters, digits, "+", "-", ".")
\* that begin with a letter
SchemeAtoms == {"http", "https", "HTTPS", "javascript", "mailto"}

\* urlparse(url): scheme, netloc, path, query, fragment
UrlParse(url) ==
    LET c == FirstIn(url, {":"})
        hasScheme == /\ c <= Len(url)
                     /\ c = 2
                     /\ url[1] \in SchemeAtoms
        scheme == IF hasScheme THEN Lower(SubSeq(url, 1, c - 1)) ELSE <<>>
        rest1 == IF hasScheme THEN Tail_(url, c + 1) ELSE url
        hasNet == StartsWith(rest1, <<"/", "/">>)
        afterSl == Tail_(rest1, 3)
        d == FirstIn(afterSl, {"/", "?", "#"})
        netloc == IF hasNet THEN SubSeq(afterSl, 1, d - 1) ELSE <<>>
        rest2 == IF hasNet THEN Tail_(afterSl, d) ELSE rest1
        h == FirstIn(rest2, {"#"})
        rest3 == SubSeq(rest2, 1, h - 1)
        q == FirstIn(rest3, {"?"})
    IN  [scheme |-> scheme,
         netloc |-> netloc,
         path |-> SubSeq(rest3, 1, q - 1),
         query |-> Tail_(rest3, q + 1),
         fragment |-> Tail_(rest2, h + 1)]

\* the name=value fields of a query string, as <<name, value>> pairs
QueryFields(query) ==
    LET parts == IF query = <<>> THEN <<>> ELSE Split(query, "&")
    IN  { LET f == parts[i]
              e == FirstIn(f, {"="})
          IN  <<SubSeq(f, 1, e - 1), Tail_(f, e + 1)>> : i \in 1..Len(parts) }

\* the keys of parse_qs(query): keep_blank_values is off, so a field with an
\* empty value (or no "=") is left out
ParseQsKeys(query) == { f[1] : f \in { g \in QueryFields(query) : g[2] # <<>> } }

(***************************************************************************)
(* Campaign Filter                                                         *)
(***************************************************************************)

CampaignHost == <<"campaign2", ".", "naver", ".", "com">>
ClickPointPath == <<"/", "npay", "/", "v2", "/", "click-", "point", "/">>
AdisonHost == <<"ofw", ".", "adison", ".", "co">>
AdisonPath == <<"/", "u", "/", "naverpay", "/", "ads", "/">>
NaverKeywords == {<<"point">>, <<"campaign">>, <<"event">>}

\* netloc == "campaign2.naver.com" and "/npay/v2/click-point/" in path
IsClickPointShape(parsed) ==
    /\ parsed.netloc = CampaignHost
    /\ Contains(parsed.path, ClickPointPath)

\* netloc == "ofw.adison.co" and "/u/naverpay/ads/" in path
IsAdisonShape(parsed) ==
    /\ parsed.netloc = AdisonHost
    /\ Contains(parsed.path, AdisonPath)

PointClaimRule(parsed) ==
    /\ IsClickPointShape(parsed)
    /\ <<"eventId">> \in ParseQsKeys(parsed.query)

GenericNaverRule(parsed) ==
    /\ Contains(parsed.netloc, <<"naver">>)
    /\ \E keyword \in NaverKeywords : Contains(Lower(parsed.path), keyword)

\* one url of the loop of _filter_campaign_urls: added by the first rule that
\* matches, so the result is the union of the rules
IsCampaignUrl(url) ==
    LET parsed == UrlParse(url)
    IN  \/ PointClaimRule(parsed)
        \/ IsAdisonShape(parsed)
        \/ GenericNaverRule(parsed)

\* FilterCampaignUrls returning the accepted URLs in lower case
FilterCampaignUrlsLowered(url_candidates) ==
    { Lower(url) : url \in { u \in url_candidates : IsCampaignUrl(u) } }

FilterCampaignUrls(url_candidates) == { url \in url_candidates : IsCampaignUrl(url) }

(***************************************************************************)
(* URL Normalizer (the normalisation loop of _extract_url_candidates)      *)
(***************************************************************************)

\* urljoin(base, url) for a base of the form origin + "/" and a url without
\* scheme and without dot segments
UrlJoin(base, url) ==
    IF url = <<>> THEN base
    ELSE IF Head(url) = "/" THEN SubSeq(base, 1, Len(base) - 1) \o url
    ELSE base \o url

\* NormalizeCandidate without the final test of scheme and host
NormalizeCandidateUnchecked(cand, base_netloc) ==
    {IF StartsWith(cand, <<"/", "/">>) THEN <<"https", ":">> \o cand
     ELSE IF UrlParse(cand).scheme = <<>>
          THEN UrlJoin(base_netloc \o <<"/">>, cand)
          ELSE cand}

\* one candidate of the loop: the set holding its normalised form, or {}
NormalizeCandidate(cand, base_netloc) ==
    LET url == IF StartsWith(cand, <<"/", "/">>) THEN <<"https", ":">> \o cand
               ELSE IF UrlParse(cand).scheme = <<>>
                    THEN UrlJoin(base_netloc \o <<"/">>, cand)
                    ELSE cand
        parsed == UrlParse(url)
    IN  IF parsed.scheme \in {<<"http">>, <<"https">>} /\ parsed.netloc # <<>>
        THEN {url} ELSE {}

\* candidates: the set the three extraction passes collected from the markup
ExtractUrlCandidates(candidates, base_url) ==
    LET base_parsed == UrlParse(base_url)
        base_netloc == base_parsed.scheme \o <<":", "/", "/">> \o base_parsed.netloc
    IN  UNION { NormalizeCandidate(c, base_netloc) : c \in candidates }

(***************************************************************************)
(* Configuration (src/config.py) and the world the runs see                *)
(***************************************************************************)

DELAY_HOURS == 48
DelaySeconds == DELAY_HOURS * 3600

\* bounds of the model
MaxRuns == 3
NumProcs == 3
MaxInodes == 3

\* two of the listing pages of SCRAPING_SITES, in the order of the table
SCRAPING_SITES ==
    << <<"https", ":", "/", "/", "damoang.net", "/", "economy">>,
       <<"https", ":", "/", "/", "www.clien.net", "/", "jirum">> >>

\* post URLs as _extract_post_url returns them (urljoin keeps a trailing blank
\* of the href)
PA1 == <<"https", ":", "/", "/", "damoang.net", "/", "p1">>
PA2 == <<"https", ":", "/", "/", "damoang.net", "/", "p2">>
PB1 == <<"https", ":", "/", "/", "www.clien.net", "/", "p1", " ">>
PostUrls == {PA1, PA2, PB1}

\* the accepted posts a listing page can hold
SitePosts(i) == IF i = 1 THEN {PA1, PA2} ELSE {PB1}

\* campaign URLs and other candidates found in post bodies
ClaimUrl ==
    <<"https", ":", "/", "/">> \o CampaignHost \o ClickPointPath
        \o <<"abc", "?", "eventId", "=", "7">>
AdisonRel == <<"/", "/">> \o AdisonHost \o AdisonPath \o <<"9">>
AdisonUrl == <<"https", ":">> \o AdisonRel

\* the candidates the extraction passes find in the body of each post
PostBody(post_url) ==
    CASE post_url = PA1 -> {ClaimUrl, <<"javascript", ":", "void">>, <<"/", "board">>}
      [] post_url = PA2 -> {<<"/", "board">>, <<"http", ":", "/", "/">>}
      [] OTHER -> {AdisonRel, ClaimUrl}

\* config.naver_login_info, in insertion order: <<id, password>>
naver_login_info ==
    << << <<"alice">>, <<"pw1">> >>,
       << <<"your_naver_id", "_1">>, <<"your_password">> >>,
       << <<"carol">>, <<>> >>,
       << <<"bob">>, <<"pw2">> >> >>

\* _get_naver_accounts: placeholder and empty entries are left out
GetNaverAccounts ==
    SelectSeq(naver_login_info,
              LAMBDA e : /\ e[1] # <<>>
                         /\ e[2] # <<>>
                         /\ ~StartsWith(e[1], <<"your_naver_id">>)
                         /\ ~StartsWith(e[2], <<"your_password">>))

(***************************************************************************)
(* Persisted state: the visited-set file and the backoff marker            *)
(***************************************************************************)

\* code-point order of the first characters of the atoms post URLs are made of
AtomOrder == <<" ", "/", ":", "damoang.net", "https", "p1", "p2", "www.clien.net">>
AtomRank(a) == CHOOSE i \in 1..Len(AtomOrder) : AtomOrder[i] = a

\* s < t for Python strings
RECURSIVE StrLess(_, _)
StrLess(s, t) ==
    IF t = <<>> THEN FALSE
    ELSE IF s = <<>> THEN TRUE
    ELSE IF Head(s) = Head(t) THEN StrLess(Tail(s), Tail(t))
    ELSE AtomRank(Head(s)) < AtomRank(Head(t))

\* sorted(S)
RECURSIVE Sorted(_)
Sorted(S) ==
    IF S = {} THEN <<>>
    ELSE LET m == CHOOSE x \in S : \A y \in S \ {x} : StrLess(x, y)
         IN  <<m>> \o Sorted(S \ {m})

\* the lines _save_visited_urls writes (each is followed by a newline)
SaveLines(urls) == Sorted(urls)

\* the set _load_visited_urls builds from the lines of the file
LoadLines(lines) ==
    { Strip(lines[i]) : i \in { k \in 1..Len(lines) : Strip(lines[k]) # <<>> } }

\* the lines of a file as a set
LineSet(lines) == { lines[i] : i \in 1..Len(lines) }

\* CheckBreakPoint with the age compared with the hours, not the seconds
CheckBreakPointHours(exists, mtime, clock) ==
    IF ~exists THEN "absent"
    ELSE IF clock - mtime >= DELAY_HOURS THEN "cleared"
    ELSE "cooling"

\* CheckBreakPoint with > for >=: only a marker older than the delay is cleared
CheckBreakPointStrict(exists, mtime, clock) ==
    IF ~exists THEN "absent"
    ELSE IF clock - mtime > DelaySeconds THEN "cleared"
    ELSE "cooling"

\* _check_break_point: "absent" (no marker), "cleared" (expired marker
\* unlinked) or "cooling" (sys.exit(1))
CheckBreakPoint(exists, mtime, clock) ==
    IF ~exists THEN "absent"
    ELSE IF clock - mtime >= DelaySeconds THEN "cleared"
    ELSE "cooling"

\* _create_break_point: the marker as it is after the call (no action below
\* uses it: the source has no call of _create_break_point)
CreateBreakPoint(clock) == [exists |-> TRUE, mtime |-> clock]

(***************************************************************************)
(* State                                                                   *)
(***************************************************************************)

VARIABLES
    \* the clock and the persisted state
    now, markerExists, markerMtime, fileExists, visitedFile,
    \* the running process: main(), post_scrap(), campaign_scrap(), get_coin()
    pc, runNo, exitStatus, visited_urls, posts, siteIdx, toScan, campaign_links,
    acctIdx, driver, toVisit,
    \* history of the current run (not program state)
    gate, gateAge, clearedEver, loaded, listed, siteFound, fetched, fetchedOk,
    sessions, started, loginResult, navCount, visitFailed,
    \* the post sets of the last two earlier runs that got through post_scrap
    pastPosts,
    \* the Campaign Filter applied to a set of URLs
    fpc, fIn, fOut, fOut2,
    \* instances contending for the PID file
    ppc, pidPath, nextInode, fd, lockOwner,
    \* the URL Normalizer applied to the candidates of one page
    npc, nIn, nBase, nOut,
    \* one call of dwell_and_scroll: where it is, the minimum in force (s), the
    \* time since start_time (tenths of a second), the page, the scroll
    \* position, the iterations left of the current loop, the operations that
    \* failed, the scrolls and keystrokes issued so far
    dpc, dMin, dElapsed, dSpan, dView, dPos, dLeft, dFailed, dActs,
    \* one link of _visit_campaign_links: where the visit is, the outcome of
    \* driver.get, the current URL and its shape, the selector at hand, the
    \* selectors tried and clicked, success of click_point_and_dwell, the
    \* calls of dwell_and_scroll, the result of _process_campaign_site
    vpc, vNav, vUrl, vShape, vSel, vTried, vClicks, success, vDwells, vResult

persistVars == <<now, markerExists, markerMtime, fileExists, visitedFile>>
runVars == <<pc, runNo, exitStatus, visited_urls, posts, siteIdx, toScan,
             campaign_links, acctIdx, driver, toVisit>>
histVars == <<gate, gateAge, clearedEver, loaded, listed, siteFound, fetched,
              fetchedOk, sessions, started, loginResult, navCount, visitFailed,
              pastPosts>>
pipeVars == <<persistVars, runVars, histVars>>
filterVars == <<fpc, fIn, fOut, fOut2>>
lockVars == <<ppc, pidPath, nextInode, fd, lockOwner>>
normVars == <<npc, nIn, nBase, nOut>>
dwellVars == <<dpc, dMin, dElapsed, dSpan, dView, dPos, dLeft, dFailed, dActs>>
visitVars == <<vpc, vNav, vUrl, vShape, vSel, vTried, vClicks, success, vDwells, vResult>>
vars == <<pipeVars, filterVars, lockVars, normVars, dwellVars, visitVars>>

Accounts == GetNaverAccounts
AcctIds == 1..Len(Accounts)

\* what campaign_scrap adds for one fetched post
DiscoverLinks(post_url) ==
    FilterCampaignUrls(ExtractUrlCandidates(PostBody(post_url), post_url))

AllLinks == UNION { DiscoverLinks(p) : p \in PostUrls }
Procs == 1..NumProcs
Inodes == 1..MaxInodes

NoNav == [k \in AcctIds \X AllLinks |-> 0]
NoLogin == [a \in AcctIds |-> "none"]

\* the variables of the other specifications, at rest
FilterIdle == fpc = "off" /\ fIn = {} /\ fOut = {} /\ fOut2 = {}
NormIdle == npc = "off" /\ nIn = {} /\ nBase = <<>> /\ nOut = {}
VisitIdle ==
    /\ vpc = "off" /\ vNav = "none" /\ vUrl = <<>> /\ vShape = "unread" /\ vSel = 0
    /\ vTried = <<>> /\ vClicks = <<>> /\ success = FALSE /\ vDwells = 0
    /\ vResult = "none"
DwellIdle ==
    /\ dpc = "off" /\ dMin = 0 /\ dElapsed = 0 /\ dSpan = 0 /\ dView = 0
    /\ dPos = 0 /\ dLeft = 0 /\ dFailed = {} /\ dActs = <<>>
LockIdle ==
    /\ ppc = [p \in Procs |-> "off"]
    /\ pidPath = 0
    /\ nextInode = 1
    /\ fd = [p \in Procs |-> 0]
    /\ lockOwner = [i \in Inodes |-> 0]
\* no site of this run has been asked yet
NoSites == [i \in 1..Len(SCRAPING_SITES) |-> [state |-> "none", found |-> {}]]

\* the last two entries of a history
LastTwo(h) == IF Len(h) > 2 THEN SubSeq(h, Len(h) - 1, Len(h)) ELSE h

PipeIdle ==
    /\ now = 0 /\ markerExists = FALSE /\ markerMtime = 0
    /\ fileExists = FALSE /\ visitedFile = <<>>
    /\ pc = "off" /\ runNo = 0 /\ exitStatus = -1
    /\ visited_urls = {} /\ posts = {} /\ siteIdx = 0 /\ toScan = {}
    /\ campaign_links = {} /\ acctIdx = 0 /\ driver = 0 /\ toVisit = {}
    /\ gate = "unchecked" /\ gateAge = -1 /\ clearedEver = FALSE
    /\ loaded = {} /\ listed = {} /\ fetched = {} /\ fetchedOk = {}
    /\ siteFound = NoSites /\ pastPosts = <<>>
    /\ sessions = {} /\ started = {} /\ loginResult = NoLogin
    /\ navCount = NoNav /\ visitFailed = {}

(***************************************************************************)
(* The pipeline: consecutive runs of main()                                *)
(***************************************************************************)

\* the marker, when there is one, was written at one of these times
MarkerTimes == {0, 1, DelaySeconds}

InitPipe ==
    /\ now = DelaySeconds - 1
    /\ markerExists \in BOOLEAN
    /\ markerMtime \in (IF markerExists THEN MarkerTimes ELSE {0})
    /\ fileExists \in BOOLEAN
    /\ visitedFile \in (IF fileExists
                        THEN { SaveLines(V) : V \in (SUBSET PostUrls) \ {{}} }
                        ELSE {<<>>})
    /\ pc = "idle" /\ runNo = 0 /\ exitStatus = -1
    /\ visited_urls = {} /\ posts = {} /\ siteIdx = 0 /\ toScan = {}
    /\ campaign_links = {} /\ acctIdx = 0 /\ driver = 0 /\ toVisit = {}
    /\ gate = "unchecked" /\ gateAge = -1 /\ clearedEver = FALSE
    /\ loaded = {} /\ listed = {} /\ fetched = {} /\ fetchedOk = {}
    /\ siteFound = NoSites /\ pastPosts = <<>>
    /\ sessions = {} /\ started = {} /\ loginResult = NoLogin
    /\ navCount = NoNav /\ visitFailed = {}

Init == InitPipe /\ FilterIdle /\ LockIdle /\ NormIdle /\ DwellIdle /\ VisitIdle

\* the last run passed the gate and post_scrap returned
RunCompleted == pc = "exited" /\ gate \in {"absent", "cleared"} /\ exitStatus = 0

\* a new process: one second later, with nothing of the last one left but the
\* files; main() calls avoid_overlap(), which exits with 1 when another
\* instance holds the lock
AvoidOverlap ==
    /\ pc \in {"idle", "exited", "interrupted"}
    /\ runNo < MaxRuns
    /\ runNo' = runNo + 1
    /\ now' = now + 1
    /\ visited_urls' = {} /\ posts' = {} /\ siteIdx' = 0 /\ toScan' = {}
    /\ campaign_links' = {} /\ acctIdx' = 0 /\ driver' = 0 /\ toVisit' = {}
    /\ gate' = "unchecked" /\ gateAge' = -1
    /\ loaded' = {} /\ listed' = {} /\ fetched' = {} /\ fetchedOk' = {}
    /\ siteFound' = NoSites
    /\ pastPosts' = IF RunCompleted THEN LastTwo(Append(pastPosts, posts)) ELSE pastPosts
    /\ sessions' = {} /\ started' = {} /\ loginResult' = NoLogin
    /\ navCount' = NoNav /\ visitFailed' = {}
    /\ \E lockTaken \in BOOLEAN :
         IF lockTaken
         THEN pc' = "exited" /\ exitStatus' = 1
         ELSE pc' = "init" /\ exitStatus' = -1
    /\ UNCHANGED <<markerExists, markerMtime, fileExists, visitedFile, clearedEver>>
    /\ UNCHANGED <<filterVars, lockVars, normVars, dwellVars, visitVars>>

\* NaverCoinScraper.__init__: _check_break_point, then _load_visited_urls
ScraperInit ==
    /\ pc = "init"
    /\ LET g == CheckBreakPoint(markerExists, markerMtime, now)
       IN  /\ gate' = g
           /\ gateAge' = IF markerExists THEN now - markerMtime ELSE -1
           /\ IF g = "cleared"
              THEN markerExists' = FALSE /\ markerMtime' = 0 /\ clearedEver' = TRUE
              ELSE UNCHANGED <<markerExists, markerMtime, clearedEver>>
           /\ IF g = "cooling"
              THEN /\ pc' = "exited" /\ exitStatus' = 1
                   /\ UNCHANGED <<visited_urls, loaded, siteIdx>>
              ELSE /\ visited_urls' = (IF fileExists THEN LoadLines(visitedFile) ELSE {})
                   /\ loaded' = visited_urls'
                   /\ pc' = "collect" /\ siteIdx' = 1
                   /\ UNCHANGED exitStatus
    /\ UNCHANGED <<now, fileExists, visitedFile, runNo, posts, toScan, campaign_links,
                   acctIdx, driver, toVisit, listed, siteFound, pastPosts, fetched, fetchedOk, sessions,
                   started, loginResult, navCount, visitFailed>>
    /\ UNCHANGED <<filterVars, lockVars, normVars, dwellVars, visitVars>>

\* AfterSiteError with the loop left at the first failing site
AfterSiteErrorStop(i) == Len(SCRAPING_SITES) + 1

\* _collect_posts_from_sites: the except clause continues with the next site
AfterSiteError(i) == i + 1

\* _collect_posts_from_sites, one site: the related posts its listing shows
\* are added, unless the fetch or the parse fails, which adds nothing
CollectSite ==
    /\ pc = "collect"
    /\ siteIdx <= Len(SCRAPING_SITES)
    /\ listed' = listed \cup {siteIdx}
    /\ \/ /\ \E err \in {"RequestException", "Exception"} : TRUE
          /\ \E listing \in SUBSET SitePosts(siteIdx) :
               siteFound' = [siteFound EXCEPT
                               ![siteIdx] = [state |-> "failed", found |-> listing]]
          /\ siteIdx' = AfterSiteError(siteIdx)
          /\ UNCHANGED posts
       \/ \E found \in SUBSET SitePosts(siteIdx) :
            /\ siteFound' = [siteFound EXCEPT ![siteIdx] = [state |-> "ok", found |-> found]]
            /\ siteIdx' = siteIdx + 1
            /\ posts' = posts \cup found
    /\ UNCHANGED <<persistVars, pc, runNo, exitStatus, visited_urls, toScan,
                   campaign_links, acctIdx, driver, toVisit>>
    /\ UNCHANGED <<gate, gateAge, clearedEver, loaded, fetched, fetchedOk, sessions,
                   started, loginResult, navCount, visitFailed, pastPosts>>
    /\ UNCHANGED <<filterVars, lockVars, normVars, dwellVars, visitVars>>

\* AfterCollect without the early return: an empty post set goes the whole way
AfterCollectAlways(collected) == "scrap"

\* post_scrap: if not posts: return
AfterCollect(collected) == IF collected = {} THEN "exited" ELSE "scrap"

\* post_scrap after the collection: no posts, return (main then ends normally)
CollectDone ==
    /\ pc = "collect"
    /\ siteIdx > Len(SCRAPING_SITES)
    /\ pc' = AfterCollect(posts)
    /\ IF pc' = "exited"
       THEN exitStatus' = 0 /\ UNCHANGED toScan
       ELSE toScan' = posts /\ UNCHANGED exitStatus
    /\ UNCHANGED <<persistVars, runNo, visited_urls, posts, siteIdx, campaign_links,
                   acctIdx, driver, toVisit, histVars>>
    /\ UNCHANGED <<filterVars, lockVars, normVars, dwellVars, visitVars>>

\* AlreadyVisited without the membership test: no post is skipped
AlreadyVisitedNever(post_url, visited) == FALSE

\* campaign_scrap: post_url in self.visited_urls
AlreadyVisited(post_url, visited) == post_url \in visited

\* UpdateLinks as an assignment: the links of the last post replace the others
UpdateLinksAssign(links, new_campaigns) == new_campaigns

\* campaign_scrap: campaign_links.update(new_campaigns)
UpdateLinks(links, new_campaigns) == links \cup new_campaigns

\* campaign_scrap, one post of the loop (a set is iterated in any order)
ScrapPost ==
    /\ pc = "scrap"
    /\ \E post_url \in toScan :
         /\ toScan' = toScan \ {post_url}
         /\ IF AlreadyVisited(post_url, visited_urls)
            THEN UNCHANGED <<fetched, fetchedOk, campaign_links>>
            ELSE /\ fetched' = fetched \cup {post_url}
                 /\ \/ /\ fetchedOk' = fetchedOk \cup {post_url}
                       /\ campaign_links' = UpdateLinks(campaign_links,
                                                        DiscoverLinks(post_url))
                    \/ /\ \E err \in {"RequestException", "Exception"} : TRUE
                       /\ UNCHANGED <<fetchedOk, campaign_links>>
    /\ UNCHANGED <<persistVars, pc, runNo, exitStatus, visited_urls, posts, siteIdx,
                   acctIdx, driver, toVisit>>
    /\ UNCHANGED <<gate, gateAge, clearedEver, loaded, listed, siteFound, pastPosts, sessions, started,
                   loginResult, navCount, visitFailed>>
    /\ UNCHANGED <<filterVars, lockVars, normVars, dwellVars, visitVars>>

\* post_scrap after campaign_scrap: get_coin when there are links; get_coin
\* returns at once when no account is configured
ScrapDone ==
    /\ pc = "scrap"
    /\ toScan = {}
    /\ IF campaign_links = {} \/ Len(Accounts) = 0
       THEN pc' = "save" /\ UNCHANGED acctIdx
       ELSE pc' = "create" /\ acctIdx' = 1
    /\ UNCHANGED <<persistVars, runNo, exitStatus, visited_urls, posts, siteIdx, toScan,
                   campaign_links, driver, toVisit, histVars>>
    /\ UNCHANGED <<filterVars, lockVars, normVars, dwellVars, visitVars>>

\* get_coin: the loop goes on with the next account, or get_coin returns
NextAccount(i) == IF i < Len(Accounts) THEN "create" ELSE "save"

\* OnAccountError without the except clause: the exception leaves get_coin and
\* post_scrap, and main exits with 1
OnAccountErrorRaise(i) == "exited"

\* get_coin: except Exception logs, and the loop goes on after the finally
OnAccountError(i) == NextAccount(i)

\* get_coin, one account: _create_firefox_driver.  webdriver.Firefox() starts
\* the session; it or the execute_script after it may raise, and then driver
\* is still None in get_coin, whose finally disposes nothing
CreateDriver ==
    /\ pc = "create"
    /\ started' = started \cup {acctIdx}
    /\ \/ /\ sessions' = sessions \cup {acctIdx}
          /\ driver' = acctIdx
          /\ pc' = "login"
          /\ UNCHANGED acctIdx
       \/ /\ \E raised \in {"webdriver.Firefox"} : TRUE
          /\ UNCHANGED <<sessions, driver>>
          /\ pc' = OnAccountError(acctIdx)
          /\ acctIdx' = acctIdx + 1
       \/ /\ \E raised \in {"execute_script"} : TRUE
          /\ sessions' = sessions \cup {acctIdx}
          /\ UNCHANGED driver
          /\ pc' = OnAccountError(acctIdx)
          /\ acctIdx' = acctIdx + 1
    \* an exception that leaves get_coin would reach main's except clause
    /\ exitStatus' = IF pc' = "exited" THEN 1 ELSE exitStatus
    /\ UNCHANGED <<persistVars, runNo, visited_urls, posts, siteIdx, toScan,
                   campaign_links, toVisit>>
    /\ UNCHANGED <<gate, gateAge, clearedEver, loaded, listed, siteFound, pastPosts, fetched, fetchedOk,
                   loginResult, navCount, visitFailed>>
    /\ UNCHANGED <<filterVars, lockVars, normVars, dwellVars, visitVars>>

\* AfterLogin without the test: the links are visited whatever the login returned
AfterLoginAlways(ok) == "visit"

\* get_coin: if self._login_naver(...) then _visit_campaign_links else log
AfterLogin(ok) == IF ok THEN "visit" ELSE "cleanup"

\* get_coin, one account: _login_naver returns True, or False on a timeout or
\* any other exception
Login ==
    /\ pc = "login"
    /\ \E result \in {"ok", "TimeoutException", "Exception"} :
         /\ loginResult' = [loginResult EXCEPT
                              ![acctIdx] = IF result = "ok" THEN "ok" ELSE "fail"]
         /\ pc' = AfterLogin(result = "ok")
    /\ toVisit' = IF pc' = "visit" THEN campaign_links ELSE {}
    /\ UNCHANGED <<persistVars, runNo, exitStatus, visited_urls, posts, siteIdx, toScan,
                   campaign_links, acctIdx, driver>>
    /\ UNCHANGED <<gate, gateAge, clearedEver, loaded, listed, siteFound, pastPosts, fetched, fetchedOk,
                   sessions, started, navCount, visitFailed>>
    /\ UNCHANGED <<filterVars, lockVars, normVars, dwellVars, visitVars>>

\* RemainingLinks with break for continue: a failed link ends the loop
RemainingLinksAbort(links, link, failed) == IF failed THEN {} ELSE links \ {link}

\* _visit_campaign_links: the links still to visit after this one; the except
\* clause continues with the next link
RemainingLinks(links, link, failed) == links \ {link}

\* _visit_campaign_links, one link of the loop: driver.get(link), then the
\* alert and the site handling, which catch their own exceptions
VisitLink ==
    /\ pc = "visit"
    /\ \E link \in toVisit :
         /\ navCount' = [navCount EXCEPT ![<<acctIdx, link>>] = @ + 1]
         /\ \E failed \in BOOLEAN :
              /\ toVisit' = RemainingLinks(toVisit, link, failed)
              /\ visitFailed' = IF failed THEN visitFailed \cup {acctIdx} ELSE visitFailed
    /\ UNCHANGED <<persistVars, pc, runNo, exitStatus, visited_urls, posts, siteIdx,
                   toScan, campaign_links, acctIdx, driver>>
    /\ UNCHANGED <<gate, gateAge, clearedEver, loaded, listed, siteFound, pastPosts, fetched, fetchedOk,
                   sessions, started, loginResult>>
    /\ UNCHANGED <<filterVars, lockVars, normVars, dwellVars, visitVars>>

\* _visit_campaign_links returns
VisitDone ==
    /\ pc = "visit"
    /\ toVisit = {}
    /\ pc' = "cleanup"
    /\ UNCHANGED <<persistVars, runNo, exitStatus, visited_urls, posts, siteIdx, toScan,
                   campaign_links, acctIdx, driver, toVisit, histVars>>
    /\ UNCHANGED <<filterVars, lockVars, normVars, dwellVars, visitVars>>

\* get_coin, the finally of one account: _cleanup_driver calls driver.quit()
\* and catches what it raises
CleanupDriver ==
    /\ pc = "cleanup"
    /\ IF driver # 0
       THEN \E outcome \in {"ok", "Exception"} : sessions' = sessions \ {driver}
       ELSE UNCHANGED sessions
    /\ driver' = 0
    /\ pc' = NextAccount(acctIdx)
    /\ acctIdx' = acctIdx + 1
    /\ UNCHANGED <<persistVars, runNo, exitStatus, visited_urls, posts, siteIdx, toScan,
                   campaign_links, toVisit>>
    /\ UNCHANGED <<gate, gateAge, clearedEver, loaded, listed, siteFound, pastPosts, fetched, fetchedOk,
                   started, loginResult, navCount, visitFailed>>
    /\ UNCHANGED <<filterVars, lockVars, normVars, dwellVars, visitVars>>

\* ReplaceVisited as a merge: the new posts are added to the old set
MergeVisited(visited, new_posts) == visited \cup new_posts

\* post_scrap: self.visited_urls = posts
ReplaceVisited(visited, new_posts) == new_posts

\* post_scrap, the end: the visited set is replaced and saved; main ends
SaveVisited ==
    /\ pc = "save"
    /\ visited_urls' = ReplaceVisited(visited_urls, posts)
    /\ visitedFile' = SaveLines(visited_urls')
    /\ fileExists' = TRUE
    /\ pc' = "exited"
    /\ exitStatus' = 0
    /\ UNCHANGED <<now, markerExists, markerMtime, runNo, posts, siteIdx, toScan,
                   campaign_links, acctIdx, driver, toVisit, histVars>>
    /\ UNCHANGED <<filterVars, lockVars, normVars, dwellVars, visitVars>>

Next ==
    \/ AvoidOverlap
    \/ ScraperInit
    \/ CollectSite
    \/ CollectDone
    \/ ScrapPost
    \/ ScrapDone
    \/ CreateDriver
    \/ Login
    \/ VisitLink
    \/ VisitDone
    \/ CleanupDriver
    \/ SaveVisited

Spec == Init /\ [][Next]_vars

(***************************************************************************)
(* The pipeline with an operator interrupt (Ctrl-C) during post_scrap      *)
(***************************************************************************)

\* KeyboardInterrupt is not an Exception: no except clause of post_scrap,
\* campaign_scrap or get_coin catches it.  The finally of get_coin quits the
\* driver it holds; an interrupt inside _create_firefox_driver or inside the
\* finally itself leaves the session as it is.  main logs the interrupt and
\* ends normally.
Interrupt ==
    /\ pc \in {"collect", "scrap", "create", "login", "visit", "cleanup", "save"}
    /\ pc' = "interrupted"
    /\ exitStatus' = 0
    /\ CASE pc \in {"login", "visit"} ->
               sessions' = sessions \ {driver} /\ UNCHANGED started
         [] pc = "cleanup" ->
               /\ \E quitDone \in BOOLEAN :
                    sessions' = IF quitDone THEN sessions \ {driver} ELSE sessions
               /\ UNCHANGED started
         [] pc = "create" ->
               \E sessionStarted \in BOOLEAN :
                  IF sessionStarted
                  THEN /\ sessions' = sessions \cup {acctIdx}
                       /\ started' = started \cup {acctIdx}
                  ELSE UNCHANGED <<sessions, started>>
         [] OTHER -> UNCHANGED <<sessions, started>>
    /\ driver' = 0
    /\ UNCHANGED <<persistVars, runNo, visited_urls, posts, siteIdx, toScan,
                   campaign_links, acctIdx, toVisit>>
    /\ UNCHANGED <<gate, gateAge, clearedEver, loaded, listed, siteFound, pastPosts,
                   fetched, fetchedOk, loginResult, navCount, visitFailed>>
    /\ UNCHANGED <<filterVars, lockVars, normVars, dwellVars, visitVars>>

NextInterrupt == Next \/ Interrupt

SpecInterrupt == Init /\ [][NextInterrupt]_vars

(***************************************************************************)
(* The Campaign Filter on its own: _filter_campaign_urls applied to a set  *)
(***************************************************************************)

ClickPointBase == <<"https", ":", "/", "/">> \o CampaignHost \o ClickPointPath \o <<"abc">>

SampleUrls ==
    { ClickPointBase \o <<"?", "eventId", "=", "1">>,
      ClickPointBase,
      ClickPointBase \o <<"?", "eventId", "=">>,
      ClickPointBase \o <<"?", "x", "=", "1", "&", "eventId", "=", "7">>,
      <<"https", ":", "/", "/">> \o CampaignHost
          \o <<"/", "npay", "/", "v2", "/", "other", "?", "eventId", "=", "1">>,
      AdisonUrl,
      <<"https", ":", "/", "/", "m", ".", "naver", ".", "com", "/", "EVENT", "/", "x">>,
      <<"https", ":", "/", "/", "example", ".", "com", "/", "point", "/", "abc">> }

InitFilter ==
    /\ fpc = "start"
    /\ fIn \in SUBSET SampleUrls
    /\ fOut = {}
    /\ fOut2 = {}

ApplyFilter ==
    /\ fpc = "start"
    /\ fOut' = FilterCampaignUrls(fIn)
    /\ fpc' = "done"
    /\ UNCHANGED <<fIn, fOut2, pipeVars, lockVars, normVars, dwellVars, visitVars>>

\* the filter applied to its own result
ApplyFilterAgain ==
    /\ fpc = "done"
    /\ fOut2' = FilterCampaignUrls(fOut)
    /\ fpc' = "again"
    /\ UNCHANGED <<fIn, fOut, pipeVars, lockVars, normVars, dwellVars, visitVars>>

NextFilter == ApplyFilter \/ ApplyFilterAgain

InitFilterSpec == InitFilter /\ PipeIdle /\ LockIdle /\ NormIdle /\ DwellIdle /\ VisitIdle

SpecFilter == InitFilterSpec /\ [][NextFilter]_vars

(***************************************************************************)
(* Single-instance lock: avoid_overlap and _cleanup_pid_file of several    *)
(* instances started on the same host.  pidPath is the inode the PID file  *)
(* name refers to (0: no such file); a lock is held on an inode.           *)
(***************************************************************************)

InitLock ==
    /\ ppc = [p \in Procs |-> "idle"]
    /\ pidPath = 0
    /\ nextInode = 1
    /\ fd = [p \in Procs |-> 0]
    /\ lockOwner = [i \in Inodes |-> 0]

\* avoid_overlap: open(pid_lock_file, 'w') opens the file the name refers
\* to, or creates a new one
OpenPidFile(p) ==
    /\ ppc[p] = "idle"
    /\ IF pidPath = 0
       THEN /\ nextInode <= MaxInodes
            /\ pidPath' = nextInode
            /\ nextInode' = nextInode + 1
       ELSE UNCHANGED <<pidPath, nextInode>>
    /\ fd' = [fd EXCEPT ![p] = pidPath']
    /\ ppc' = [ppc EXCEPT ![p] = "opened"]
    /\ UNCHANGED <<lockOwner, pipeVars, filterVars, normVars, dwellVars, visitVars>>

\* avoid_overlap: fcntl.lockf(f, LOCK_EX | LOCK_NB); on success the PID is
\* written and the cleanup registered, on failure sys.exit(1)
LockPidFile(p) ==
    /\ ppc[p] = "opened"
    /\ IF lockOwner[fd[p]] = 0
       THEN /\ lockOwner' = [lockOwner EXCEPT ![fd[p]] = p]
            /\ ppc' = [ppc EXCEPT ![p] = "running"]
            /\ UNCHANGED fd
       ELSE /\ ppc' = [ppc EXCEPT ![p] = "refused"]
            /\ fd' = [fd EXCEPT ![p] = 0]
            /\ UNCHANGED lockOwner
    /\ UNCHANGED <<pidPath, nextInode, pipeVars, filterVars, normVars, dwellVars, visitVars>>

\* _cleanup_pid_file at exit: f.close() releases the lock
CleanupClose(p) ==
    /\ ppc[p] = "running"
    /\ lockOwner' = [lockOwner EXCEPT ![fd[p]] = 0]
    /\ fd' = [fd EXCEPT ![p] = 0]
    /\ ppc' = [ppc EXCEPT ![p] = "closed"]
    /\ UNCHANGED <<pidPath, nextInode, pipeVars, filterVars, normVars, dwellVars, visitVars>>

\* _cleanup_pid_file at exit: if pid_lock_file.exists(): pid_lock_file.unlink()
CleanupUnlink(p) ==
    /\ ppc[p] = "closed"
    /\ pidPath' = 0
    /\ ppc' = [ppc EXCEPT ![p] = "exited"]
    /\ UNCHANGED <<nextInode, fd, lockOwner, pipeVars, filterVars, normVars, dwellVars, visitVars>>

NextLock ==
    \E p \in Procs :
        \/ OpenPidFile(p)
        \/ LockPidFile(p)
        \/ CleanupClose(p)
        \/ CleanupUnlink(p)

InitLockSpec == InitLock /\ PipeIdle /\ FilterIdle /\ NormIdle /\ DwellIdle /\ VisitIdle

SpecLock == InitLockSpec /\ [][NextLock]_vars

(***************************************************************************)
(* The URL Normalizer on its own: the normalisation loop of                *)
(* _extract_url_candidates applied to the candidates of one page           *)
(***************************************************************************)

\* candidates as the extraction passes yield them: absolute, scheme-relative,
\* relative, empty, without host, of another scheme
SampleCandidates ==
    { ClaimUrl,
      AdisonRel,
      <<"/", "/">>,
      <<"/", "board">>,
      <<"view", "?", "id", "=", "1">>,
      <<>>,
      <<"http", ":", "/", "/">>,
      <<"http", ":", "/", "foo">>,
      <<"javascript", ":", "void">> }

InitNorm ==
    /\ npc = "start"
    /\ nIn \in SUBSET SampleCandidates
    /\ nBase \in {PA1, PB1}
    /\ nOut = {}

ApplyNormalizer ==
    /\ npc = "start"
    /\ nOut' = ExtractUrlCandidates(nIn, nBase)
    /\ npc' = "done"
    /\ UNCHANGED <<nIn, nBase, pipeVars, filterVars, lockVars, dwellVars, visitVars>>

NextNorm == ApplyNormalizer

InitNormSpec == InitNorm /\ PipeIdle /\ FilterIdle /\ LockIdle /\ DwellIdle /\ VisitIdle

SpecNorm == InitNormSpec /\ [][NextNorm]_vars

(***************************************************************************)
(* One call of dwell_and_scroll.  Times are in tenths of a second; dElapsed *)
(* is time.time() - start_time.                                            *)
(***************************************************************************)

MIN_DWELL_TIME == 6
ReadyWaitSeconds == 10
DefaultViewport == 800

Tenths(seconds) == 10 * seconds
\* Min without the comparison: the second argument as it is
MinUnclamped(a, b) == b

Min(a, b) == IF a < b THEN a ELSE b
Max(a, b) == IF a > b THEN a ELSE b

\* the min_seconds argument: absent, or a number of seconds
Overrides == {<<>>, <<0>>, <<20>>}

\* if min_seconds is None: min_seconds = self.min_dwell_time
MinSeconds(override) == IF override = <<>> THEN MIN_DWELL_TIME ELSE override[1]

\* document heights and window.innerHeight values the page reports (0: none)
TotalHeights == {0, 700, 3000}
InnerHeights == {0, 600}

\* the ends of the ranges random.uniform draws the pauses and the jitter from
ReadyTimes == {0}
DownPause == {8, 16}
UpPause == {6, 12}
KeyPause == {2, 4}
Jitter == {3, 8}

\* the ends of the range random.randint draws a scroll step from
DownSteps(viewport_height) == {(viewport_height * 3) \div 10, (viewport_height * 8) \div 10}
UpSteps(viewport_height) == {viewport_height \div 10, (viewport_height * 4) \div 10}

\* OnScrollError without the except clause: the exception leaves dwell_and_scroll
OnScrollErrorRaise == "raised"

\* dwell_and_scroll: except Exception around the measurement and the scrolling
\* logs a warning, and the routine goes on to the minimum-dwell wait
OnScrollError == "floor"

\* FloorSleep sleeping the jitter alone
FloorSleepJitterOnly(min_tenths, elapsed, jitter) ==
    IF min_tenths - elapsed > 0 THEN jitter ELSE 0

\* dwell_and_scroll: remaining = min_seconds - elapsed; if remaining > 0 the
\* routine sleeps remaining + random.uniform(0.3, 0.8)
FloorSleep(min_tenths, elapsed, jitter) ==
    IF min_tenths - elapsed > 0 THEN (min_tenths - elapsed) + jitter ELSE 0

InitDwell ==
    /\ dpc = "ready"
    /\ dMin \in { MinSeconds(o) : o \in Overrides }
    /\ dElapsed = 0 /\ dSpan = 0 /\ dView = 0 /\ dPos = 0 /\ dLeft = 0
    /\ dFailed = {}
    /\ dActs = <<>>

\* WebDriverWait(driver, 10).until(readyState == "complete"): both except
\* clauses log a warning
ReadyWait ==
    /\ dpc = "ready"
    /\ \E outcome \in {"complete", "TimeoutException", "Exception"} :
         /\ \E t \in (IF outcome = "TimeoutException"
                      THEN {Tenths(ReadyWaitSeconds)} ELSE ReadyTimes) :
              dElapsed' = dElapsed + t
         /\ dFailed' = IF outcome = "complete" THEN dFailed ELSE dFailed \cup {"ready"}
    /\ dpc' = "measure"
    /\ UNCHANGED <<dMin, dSpan, dView, dPos, dLeft, dActs>>
    /\ UNCHANGED <<pipeVars, filterVars, lockVars, normVars, visitVars>>

\* the two execute_script calls that measure the page, and the branch on
\* scrollable_height; _perform_natural_scrolling begins with randint(3, 6)
MeasurePage ==
    /\ dpc = "measure"
    /\ \/ /\ \E raised \in {"scrollHeight", "innerHeight"} : TRUE
          /\ dFailed' = dFailed \cup {"measure"}
          /\ dpc' = OnScrollError
          /\ UNCHANGED <<dSpan, dView, dLeft>>
       \/ \E total_height \in TotalHeights, inner \in InnerHeights :
            /\ dView' = IF inner = 0 THEN DefaultViewport ELSE inner
            /\ dSpan' = Max(0, total_height - dView')
            /\ IF dSpan' > 0
               THEN dpc' = "down" /\ dLeft' \in 3..6
               ELSE dpc' = "floor" /\ dLeft' = 0
            /\ UNCHANGED dFailed
    /\ UNCHANGED <<dMin, dElapsed, dPos, dActs>>
    /\ UNCHANGED <<pipeVars, filterVars, lockVars, normVars, visitVars>>

\* _perform_natural_scrolling, one iteration of the downward loop
ScrollDown ==
    /\ dpc = "down"
    /\ \E step_size \in DownSteps(dView) : dPos' = Min(dSpan, dPos + step_size)
    /\ \/ /\ \E raised \in {"scrollTo"} : TRUE
          /\ dFailed' = dFailed \cup {"scroll"}
          /\ dpc' = OnScrollError
          /\ dLeft' = 0
          /\ UNCHANGED dElapsed
       \/ /\ \E pause \in DownPause : dElapsed' = dElapsed + pause
          /\ IF dLeft = 1
             THEN dpc' = "up" /\ dLeft' \in 1..3
             ELSE dpc' = "down" /\ dLeft' = dLeft - 1
          /\ UNCHANGED dFailed
    /\ dActs' = Append(dActs, "down")
    /\ UNCHANGED <<dMin, dSpan, dView>>
    /\ UNCHANGED <<pipeVars, filterVars, lockVars, normVars, visitVars>>

\* _perform_natural_scrolling, one iteration of the upward loop
ScrollUp ==
    /\ dpc = "up"
    /\ \E step_size \in UpSteps(dView) : dPos' = Max(0, dPos - step_size)
    /\ \/ /\ \E raised \in {"scrollTo"} : TRUE
          /\ dFailed' = dFailed \cup {"scroll"}
          /\ dpc' = OnScrollError
          /\ dLeft' = 0
          /\ UNCHANGED dElapsed
       \/ /\ \E pause \in UpPause : dElapsed' = dElapsed + pause
          /\ IF dLeft = 1
             THEN dpc' = "body" /\ dLeft' = 0
             ELSE dpc' = "up" /\ dLeft' = dLeft - 1
          /\ UNCHANGED dFailed
    /\ dActs' = Append(dActs, "up")
    /\ UNCHANGED <<dMin, dSpan, dView>>
    /\ UNCHANGED <<pipeVars, filterVars, lockVars, normVars, visitVars>>

\* driver.find_element(By.TAG_NAME, "body"): NoSuchElementException is caught
\* in _perform_natural_scrolling, anything else in dwell_and_scroll
FindBody ==
    /\ dpc = "body"
    /\ \/ /\ dpc' = "keys" /\ dLeft' \in 1..3
          /\ UNCHANGED dFailed
       \/ /\ \E raised \in {"NoSuchElementException"} : TRUE
          /\ dFailed' = dFailed \cup {"body"}
          /\ dpc' = "floor"
          /\ UNCHANGED dLeft
       \/ /\ \E raised \in {"Exception"} : TRUE
          /\ dFailed' = dFailed \cup {"body"}
          /\ dpc' = OnScrollError
          /\ UNCHANGED dLeft
    /\ UNCHANGED <<dMin, dElapsed, dSpan, dView, dPos, dActs>>
    /\ UNCHANGED <<pipeVars, filterVars, lockVars, normVars, visitVars>>

\* body.send_keys(Keys.PAGE_DOWN), one iteration of the loop
SendPageDown ==
    /\ dpc = "keys"
    /\ \/ /\ \E raised \in {"Exception"} : TRUE
          /\ dFailed' = dFailed \cup {"key"}
          /\ dpc' = OnScrollError
          /\ dLeft' = 0
          /\ UNCHANGED dElapsed
       \/ /\ \E pause \in KeyPause : dElapsed' = dElapsed + pause
          /\ IF dLeft = 1
             THEN dpc' = "pageup" /\ dLeft' = 0
             ELSE dpc' = "keys" /\ dLeft' = dLeft - 1
          /\ UNCHANGED dFailed
    /\ dActs' = Append(dActs, "page_down")
    /\ UNCHANGED <<dMin, dSpan, dView, dPos>>
    /\ UNCHANGED <<pipeVars, filterVars, lockVars, normVars, visitVars>>

\* if random.choice([True, False]): body.send_keys(Keys.PAGE_UP)
SendPageUp ==
    /\ dpc = "pageup"
    /\ \E choice \in BOOLEAN :
         IF choice
         THEN /\ dActs' = Append(dActs, "page_up")
              /\ \/ /\ \E raised \in {"Exception"} : TRUE
                    /\ dFailed' = dFailed \cup {"key"}
                    /\ dpc' = OnScrollError
                    /\ UNCHANGED dElapsed
                 \/ /\ \E pause \in KeyPause : dElapsed' = dElapsed + pause
                    /\ dpc' = "floor"
                    /\ UNCHANGED dFailed
         ELSE dpc' = "floor" /\ UNCHANGED <<dElapsed, dFailed, dActs>>
    /\ UNCHANGED <<dMin, dSpan, dView, dPos, dLeft>>
    /\ UNCHANGED <<pipeVars, filterVars, lockVars, normVars, visitVars>>

\* the minimum-dwell wait at the end of dwell_and_scroll, and the return
DwellFloor ==
    /\ dpc = "floor"
    /\ \E jitter \in Jitter :
         dElapsed' = dElapsed + FloorSleep(Tenths(dMin), dElapsed, jitter)
    /\ dpc' = "returned"
    /\ UNCHANGED <<dMin, dSpan, dView, dPos, dLeft, dFailed, dActs>>
    /\ UNCHANGED <<pipeVars, filterVars, lockVars, normVars, visitVars>>

NextDwell ==
    \/ ReadyWait
    \/ MeasurePage
    \/ ScrollDown
    \/ ScrollUp
    \/ FindBody
    \/ SendPageDown
    \/ SendPageUp
    \/ DwellFloor

InitDwellSpec == InitDwell /\ PipeIdle /\ FilterIdle /\ LockIdle /\ NormIdle /\ VisitIdle

SpecDwell == InitDwellSpec /\ [][NextDwell]_vars

(***************************************************************************)
(* One link of _visit_campaign_links: driver.get, _handle_alert,           *)
(* _process_campaign_site and, on a claim page, click_point_and_dwell.     *)
(* dwell_and_scroll is one step here: it returns whatever fails inside it. *)
(***************************************************************************)

\* click_point_and_dwell: the selectors, in the order of the list
Selectors ==
    << ".type_no_points .popup_link", ".point_btn", "[class*='point'] button",
       "button[onclick*='point']" >>

\* the pages the browser can be on after driver.get(link)
CurrentUrls == SampleUrls

\* _process_campaign_site: the branch taken for the current URL
SiteShape(current_url) ==
    IF IsClickPointShape(UrlParse(current_url)) THEN "claim"
    ELSE IF IsAdisonShape(UrlParse(current_url)) THEN "adison"
    ELSE "other"

\* AfterClickLoop with the dwell only after a click
AfterClickLoopOnSuccess(clicked) == IF clicked THEN "dwell" ELSE "next"

\* click_point_and_dwell: after the loop dwell_and_scroll is called, whether
\* or not a control was clicked
AfterClickLoop(clicked) == "dwell"

InitVisit ==
    /\ vpc = "get" /\ vNav = "none" /\ vUrl = <<>> /\ vShape = "unread" /\ vSel = 0
    /\ vTried = <<>> /\ vClicks = <<>> /\ success = FALSE /\ vDwells = 0
    /\ vResult = "none"

\* driver.get(link): an exception ends the visit of this link (except: continue)
Navigate ==
    /\ vpc = "get"
    /\ \/ vNav' = "ok" /\ vpc' = "alert"
       \/ /\ \E raised \in {"WebDriverException"} : TRUE
          /\ vNav' = "failed" /\ vpc' = "next"
    /\ UNCHANGED <<vUrl, vShape, vSel, vTried, vClicks, success, vDwells, vResult>>
    /\ UNCHANGED <<pipeVars, filterVars, lockVars, normVars, dwellVars>>

\* _handle_alert: no alert, an alert accepted, or an exception that is logged
HandleAlert ==
    /\ vpc = "alert"
    /\ \E outcome \in {"NoAlertPresentException", "accepted", "Exception"} : vpc' = "site"
    /\ UNCHANGED <<vNav, vUrl, vShape, vSel, vTried, vClicks, success, vDwells, vResult>>
    /\ UNCHANGED <<pipeVars, filterVars, lockVars, normVars, dwellVars>>

\* _process_campaign_site up to the branch: driver.current_url may raise, and
\* then the except clause returns False
ProcessSite ==
    /\ vpc = "site"
    /\ \/ /\ \E raised \in {"WebDriverException"} : TRUE
          /\ vResult' = "false" /\ vpc' = "next"
          /\ UNCHANGED <<vUrl, vShape, vSel>>
       \/ \E current_url \in CurrentUrls :
            /\ vUrl' = current_url
            /\ vShape' = SiteShape(current_url)
            /\ IF vShape' = "claim"
               THEN vpc' = "select" /\ vSel' = 1
               ELSE vpc' = "dwell" /\ UNCHANGED vSel
            /\ UNCHANGED vResult
    /\ UNCHANGED <<vNav, vTried, vClicks, success, vDwells>>
    /\ UNCHANGED <<pipeVars, filterVars, lockVars, normVars, dwellVars>>

\* click_point_and_dwell, one selector of the loop.  The control is waited
\* for, driver.current_url is read and the control is clicked; an exception of
\* any of the three goes on with the next selector.  After the click success
\* is True; the wait for the URL to change catches TimeoutException only, so
\* any other exception of it reaches the outer except clause, which continues
\* with the next selector.
TrySelector ==
    /\ vpc = "select"
    /\ vSel <= Len(Selectors)
    /\ vTried' = Append(vTried, vSel)
    /\ \/ /\ \E raised \in {"TimeoutException", "NoSuchElementException", "Exception"} : TRUE
          /\ vSel' = vSel + 1
          /\ UNCHANGED <<vpc, vClicks, success>>
       \/ /\ \E raised \in {"current_url", "click"} : TRUE
          /\ vSel' = vSel + 1
          /\ UNCHANGED <<vpc, vClicks, success>>
       \/ /\ vClicks' = Append(vClicks, vSel)
          /\ success' = TRUE
          /\ \/ /\ \E wait \in {"changed", "TimeoutException"} : TRUE
                /\ vpc' = AfterClickLoop(TRUE)
                /\ UNCHANGED vSel
             \/ /\ \E raised \in {"WebDriverException"} : TRUE
                /\ vSel' = vSel + 1
                /\ UNCHANGED vpc
    /\ UNCHANGED <<vNav, vUrl, vShape, vDwells, vResult>>
    /\ UNCHANGED <<pipeVars, filterVars, lockVars, normVars, dwellVars>>

\* click_point_and_dwell: the list of selectors is used up
SelectorsExhausted ==
    /\ vpc = "select"
    /\ vSel > Len(Selectors)
    /\ vpc' = AfterClickLoop(success)
    /\ UNCHANGED <<vNav, vUrl, vShape, vSel, vTried, vClicks, success, vDwells, vResult>>
    /\ UNCHANGED <<pipeVars, filterVars, lockVars, normVars, dwellVars>>

\* dwell_and_scroll, and the return of _process_campaign_site: success on a
\* claim page, True on any other
DwellOnPage ==
    /\ vpc = "dwell"
    /\ vDwells' = vDwells + 1
    /\ vResult' = IF vShape = "claim" THEN (IF success THEN "true" ELSE "false") ELSE "true"
    /\ vpc' = "next"
    /\ UNCHANGED <<vNav, vUrl, vShape, vSel, vTried, vClicks, success>>
    /\ UNCHANGED <<pipeVars, filterVars, lockVars, normVars, dwellVars>>

NextVisit ==
    \/ Navigate
    \/ HandleAlert
    \/ ProcessSite
    \/ TrySelector
    \/ SelectorsExhausted
    \/ DwellOnPage

InitVisitSpec == InitVisit /\ PipeIdle /\ FilterIdle /\ LockIdle /\ NormIdle /\ DwellIdle

SpecVisit == InitVisitSpec /\ [][NextVisit]_vars

(***************************************************************************)
(* Properties                                                              *)
(***************************************************************************)

\* the run is over or has not begun
GetCoinReturned == pc \in {"save", "exited"}

\* C1: a run that finds the marker younger than DELAY_HOURS * 3600 seconds at
\* the gate ends with exit status 1 with no listing fetch, post fetch, session
\* or link visit made, and leaves the marker as it was.
C1_CoolingDownAborts ==
    (gateAge >= 0 /\ gateAge < DelaySeconds) =>
        /\ pc = "exited" /\ exitStatus = 1
        /\ listed = {} /\ fetched = {} /\ started = {} /\ sessions = {}
        /\ navCount = NoNav
        /\ markerExists /\ markerMtime = now - gateAge

C1_Witness == pc = "exited" /\ gateAge = DelaySeconds - 1 /\ gate = "cooling"

\* an adverse event of the current run: a failed login or a failed link visit
AdverseEvent == (\E a \in AcctIds : loginResult[a] = "fail") \/ visitFailed # {}

\* C2: a run in which a login or a link visit failed has written the backoff
\* marker with the current time by the time it ends (violated: no step of a
\* run writes the marker).
C2_TriggerWritesMarker ==
    (pc = "exited" /\ AdverseEvent) => (markerExists /\ markerMtime = now)

\* C3: a marker whose age at the gate is at least the threshold is deleted by
\* the gate check and the run goes on past the gate; once cleared the marker
\* stays absent, so no later run finds the gate cooling down.
C3_ExpiredMarkerCleared ==
    /\ gateAge >= DelaySeconds =>
           /\ gate = "cleared"
           /\ ~markerExists
           /\ pc \notin {"idle", "init"}
           /\ exitStatus # 1
    /\ clearedEver => (~markerExists /\ gate # "cooling")

C3_Witness ==
    /\ clearedEver
    /\ gate = "absent"
    /\ pc = "collect"
    /\ now = DelaySeconds + 1

\* C4: when a run that collected a non-empty set of posts ends, the lines of
\* the visited file are exactly the collected posts, whatever the set loaded
\* at the start was and whether or not a post yielded a campaign link.
C4_VisitedReplaced ==
    (pc = "exited" /\ exitStatus = 0 /\ posts # {}) =>
        /\ fileExists
        /\ LineSet(visitedFile) = posts
        /\ visited_urls = posts

C4_Witness ==
    /\ pc = "exited" /\ exitStatus = 0
    /\ loaded \ posts # {}
    /\ posts \ loaded # {}
    /\ \E p \in posts : DiscoverLinks(p) = {}
    /\ LineSet(visitedFile) = posts

\* C5: no post of the visited set loaded at the start of the run is fetched by
\* campaign_scrap, and every campaign link of the run comes from a collected
\* post outside that set.
C5_VisitedNeverFetched ==
    /\ fetched \cap loaded = {}
    /\ \A link \in campaign_links :
           \E p \in posts \ loaded : link \in DiscoverLinks(p)

C5_Witness ==
    /\ pc = "scrap" /\ toScan = {}
    /\ PA1 \in posts \cap loaded
    /\ fetched # {}
    /\ ClaimUrl \notin campaign_links

\* the field names of the query of a URL, with or without a value
QueryNames(url) == { f[1] : f \in QueryFields(UrlParse(url).query) }

\* C6: a URL of host campaign2.naver.com whose path contains
\* /npay/v2/click-point/ is in the filter's result exactly when its query has
\* the key eventId (violated: without eventId the generic rule accepts it).
C6_EventIdDecides ==
    fpc = "done" =>
        \A url \in fIn :
            IsClickPointShape(UrlParse(url)) =>
                (url \in fOut <=> <<"eventId">> \in QueryNames(url))

\* C7: at most one instance is past avoid_overlap and running the pipeline
\* (violated: an instance that locks the file between another's close and
\* unlink holds a lock on a file the name no longer refers to).
C7_SingleInstance == Cardinality({ p \in Procs : ppc[p] = "running" }) <= 1

\* C8: at most one session is open at any time and none is open once get_coin
\* has returned (violated: a session whose set-up script raises is never quit).
C8_SessionsDisposed ==
    /\ Cardinality(sessions) <= 1
    /\ GetCoinReturned => sessions = {}

\* the loop of get_coin is done with account a
AccountDone(a) == acctIdx > a \/ (acctIdx = a /\ pc = "cleanup")

\* C9: no link is navigated to in the session of an account whose login
\* failed, and once get_coin has returned every account has been attempted.
C9_LoginFailureSkipsLinks ==
    /\ \A a \in AcctIds :
           loginResult[a] = "fail" => \A link \in AllLinks : navCount[<<a, link>>] = 0
    /\ (GetCoinReturned /\ started # {}) => started = AcctIds

C9_Witness ==
    /\ pc = "save"
    /\ loginResult[1] = "fail"
    /\ loginResult[2] = "ok"
    /\ \E link \in AllLinks : navCount[<<2, link>>] = 1

\* C10: in the session of an account that logged in, every campaign link of
\* the run is navigated to exactly once, whichever links fail, and no link is
\* navigated to twice.
C10_EachLinkOnce ==
    /\ \A k \in AcctIds \X AllLinks : navCount[k] <= 1
    /\ \A a \in AcctIds :
           (loginResult[a] = "ok" /\ AccountDone(a)) =>
               \A link \in AllLinks :
                   navCount[<<a, link>>] = IF link \in campaign_links THEN 1 ELSE 0

C10_Witness ==
    /\ pc = "save"
    /\ Cardinality(campaign_links) = 2
    /\ loginResult[1] = "ok"
    /\ 1 \in visitFailed
    /\ \A link \in campaign_links : navCount[<<1, link>>] = 1


\* C11: when the run is interrupted after the posts have been collected, the
\* visited file holds the posts of this run and no session is left open when
\* the process has ended
C11_InterruptTeardown ==
    (pc = "interrupted" /\ siteIdx > Len(SCRAPING_SITES) /\ posts # {})
        => /\ fileExists
           /\ LineSet(visitedFile) = posts
           /\ sessions = {}

\* the steps a run can still take before main ends, at most: the save, then
\* per account left the creation, the login, the links and the cleanup, before
\* that the posts left to scan, before that the sites left to ask
AccountSteps == Cardinality(AllLinks) + 5
CoinSteps(i, stage) == 1 + (Len(Accounts) - i) * AccountSteps + stage
ScrapSteps(n) == CoinSteps(0, 0) + 1 + n
CollectSteps(i) == ScrapSteps(Cardinality(PostUrls)) + 2 + Len(SCRAPING_SITES) - i
RunMeasure ==
    CASE pc = "init" -> CollectSteps(0)
      [] pc = "collect" -> CollectSteps(siteIdx)
      [] pc = "scrap" -> ScrapSteps(Cardinality(toScan))
      [] pc = "create" -> CoinSteps(acctIdx, Cardinality(AllLinks) + 4)
      [] pc = "login" -> CoinSteps(acctIdx, Cardinality(AllLinks) + 3)
      [] pc = "visit" -> CoinSteps(acctIdx, Cardinality(toVisit) + 2)
      [] pc = "cleanup" -> CoinSteps(acctIdx, 1)
      [] pc = "save" -> 1
      [] OTHER -> 0

\* the program points of a run between the gate and the end of main
RunPoints == {"collect", "scrap", "create", "login", "visit", "cleanup", "save"}

\* C12: a run that passed the gate is at a program point with a next step
\* until main has ended, every step brings the end nearer, and main ends with
\* exit status 0 whichever listings, posts, sessions, logins and links failed
C12_NormalCompletion ==
    /\ [](gate \in {"absent", "cleared"} =>
             /\ pc \in RunPoints \cup {"exited"}
             /\ pc = "exited" => exitStatus = 0
             /\ RunMeasure >= 0)
    /\ [][(pc \in RunPoints \cup {"init"}) => (RunMeasure' < RunMeasure)]_vars

C12_Witness ==
    /\ pc = "exited" /\ exitStatus = 0 /\ gate \in {"absent", "cleared"}
    /\ siteFound[2].state = "failed"
    /\ fetched # fetchedOk
    /\ 1 \in started /\ 1 \notin sessions /\ loginResult[1] = "none"
    /\ visitFailed = {2}


\* the visited set as a later run would load it
PersistedSet == IF fileExists THEN LoadLines(visitedFile) ELSE {}

\* C13 as stated: at the end of every run that got through post_scrap, also one
\* that collected nothing, the lines of the visited file are the posts of the run
C13_PersistedEqualsPosts ==
    RunCompleted => LineSet(IF fileExists THEN visitedFile ELSE <<>>) = posts

\* C13, amended: at the end of a run that collected at least one post the
\* lines of the visited file are the posts of the run; a run that collected
\* nothing leaves the persisted set as it was loaded
C13_PersistedAtRunEnd ==
    RunCompleted =>
        IF posts # {}
        THEN fileExists /\ LineSet(visitedFile) = posts
        ELSE PersistedSet = loaded

C13_Witness == RunCompleted /\ posts = {} /\ loaded # {} /\ PersistedSet = loaded

\* _collect_posts_from_sites has returned
CollectReturned ==
    /\ gate \in {"absent", "cleared"}
    /\ siteIdx > Len(SCRAPING_SITES)

\* C14: the collected posts are the union of what the sites whose listing was
\* fetched and parsed show; a failing site adds nothing, and every site after
\* it is still asked
C14_UnionOfSucceededSites ==
    CollectReturned =>
        /\ listed = 1..Len(SCRAPING_SITES)
        /\ \A i \in 1..Len(SCRAPING_SITES) : siteFound[i].state \in {"ok", "failed"}
        /\ posts = UNION { siteFound[i].found :
                             i \in { j \in 1..Len(SCRAPING_SITES) : siteFound[j].state = "ok" } }

C14_Witness ==
    /\ CollectReturned
    /\ siteFound[1].state = "failed" /\ siteFound[1].found = {PA1}
    /\ siteFound[2].state = "ok" /\ siteFound[2].found = {PB1}
    /\ posts = {PB1}

\* campaign_scrap has returned
ScrapReturned ==
    /\ gate \in {"absent", "cleared"}
    /\ \/ pc \in {"create", "login", "visit", "cleanup", "save"}
       \/ pc = "exited" /\ posts # {}

\* C15: the links campaign_scrap returns are the filtered, normalized URLs of
\* the bodies of exactly the collected posts that were not in the visited set
\* and whose fetch succeeded; every post not in the visited set is fetched,
\* whatever happened to the posts before it
C15_LinksOfFetchedPosts ==
    ScrapReturned =>
        /\ fetched = posts \ loaded
        /\ fetchedOk \subseteq fetched
        /\ campaign_links =
             UNION { FilterCampaignUrls(ExtractUrlCandidates(PostBody(p), p)) :
                     p \in fetchedOk }

C15_Witness ==
    /\ ScrapReturned
    /\ posts = {PA1, PA2} /\ fetchedOk = {PA1, PA2}
    /\ campaign_links = {ClaimUrl}


\* C16: the filter's result is a subset of its input, and the filter applied
\* to its own result returns that result
C16_FilterSelectiveIdempotent ==
    /\ fpc \in {"done", "again"} => fOut \subseteq fIn
    /\ fpc = "again" => fOut2 = fOut

C16_Witness ==
    /\ fpc = "again"
    /\ fOut # {} /\ fOut # fIn
    /\ fOut2 = fOut

\* scheme, "://" and host of a URL
Origin(url) == SubSeq(url, 1, 4 + Len(UrlParse(url).netloc))

\* what the claim says the Normalizer returns for one candidate
Resolved(cand, base_url) ==
    IF StartsWith(cand, <<"/", "/">>) THEN <<"https", ":">> \o cand
    ELSE IF UrlParse(cand).scheme = <<>>
         THEN Origin(base_url) \o (IF StartsWith(cand, <<"/">>) THEN <<>> ELSE <<"/">>)
                  \o cand
         ELSE cand

HasWebSchemeAndHost(url) ==
    /\ UrlParse(url).scheme \in {<<"http">>, <<"https">>}
    /\ UrlParse(url).netloc # <<>>

\* C19: every URL the Normalizer returns has scheme http or https and a host;
\* a candidate is returned (with https: before a leading //, resolved against
\* the origin of the base URL when it has no scheme) exactly when that form has
\* such a scheme and a host, and nothing else is returned
C19_NormalizedUrls ==
    npc = "done" =>
        /\ \A url \in nOut : HasWebSchemeAndHost(url)
        /\ \A cand \in nIn :
             Resolved(cand, nBase) \in nOut <=> HasWebSchemeAndHost(Resolved(cand, nBase))
        /\ nOut \subseteq { Resolved(cand, nBase) : cand \in nIn }

C19_Witness ==
    /\ npc = "done"
    /\ {AdisonRel, <<"/", "board">>, <<"http", ":", "/", "/">>, <<"/", "/">>} \subseteq nIn
    /\ nBase = PB1
    /\ AdisonUrl \in nOut
    /\ <<"https", ":", "/", "/", "www.clien.net", "/", "board">> \in nOut
    /\ <<"http", ":", "/", "/">> \notin nOut
    /\ <<"https", ":", "/", "/">> \notin nOut


\* C17: when dwell_and_scroll returns, at least the minimum dwell time in
\* force has passed since its entry, whatever the page and whatever failed
C17_MinimumDwell ==
    dpc = "returned" => dElapsed >= Tenths(dMin)

\* a call with the configured minimum whose ready wait failed and whose
\* scrolling failed part-way has returned
C17_Witness ==
    /\ dpc = "returned"
    /\ dMin = MIN_DWELL_TIME
    /\ dFailed = {"ready", "scroll"}
    /\ dPos > 0
    /\ dElapsed >= Tenths(dMin)

\* C18: dwell_and_scroll is never left by an exception: after a failure of the
\* ready wait it goes on to the measurement, and after a failure of the
\* measurement, a scroll script, the search for body or a key it goes on to
\* the minimum-dwell wait and returns
C18_NeverPropagates ==
    /\ [](dpc # "raised")
    /\ [][(dFailed' # dFailed) => (dpc' \in {"measure", "floor"})]_vars
    /\ []((dpc = "returned") => (dFailed \subseteq {"ready", "measure", "scroll", "body", "key"}))

C18_Witness ==
    /\ dpc = "returned"
    /\ dFailed = {"ready", "key"}


\* C20 as stated: a post collected two completed runs ago, not collected by
\* the last completed run and collected again by this run is fetched by this run
C20_RecollectedFetchedAgain ==
    (ScrapReturned /\ Len(pastPosts) = 2) =>
        \A p \in posts :
            (p \in pastPosts[1] /\ p \notin pastPosts[2]) => p \in fetched

\* C20, amended: the same, when the run in between collected at least one
\* post (a run that collects nothing does not rewrite the visited file)
C20_RecollectedFetchedAfterSave ==
    (ScrapReturned /\ Len(pastPosts) = 2 /\ pastPosts[2] # {}) =>
        \A p \in posts :
            (p \in pastPosts[1] /\ p \notin pastPosts[2]) => p \in fetched

C20_Witness ==
    /\ ScrapReturned
    /\ pastPosts = <<{PA1}, {PA2}>>
    /\ PA1 \in posts
    /\ PA1 \in fetched /\ PA1 \in fetchedOk


\* no account of this run logged in
NoAccountAuthenticated == \A a \in AcctIds : loginResult[a] # "ok"

\* the body of the post could not be fetched, or its campaign links were
\* found and no account logged in to visit them
NotProcessed(p) ==
    \/ p \in fetched \ fetchedOk
    \/ p \in fetchedOk /\ DiscoverLinks(p) # {} /\ NoAccountAuthenticated

\* C21: a post of a completed run whose fetch failed, or whose links no
\* account visited, is in the visited set the next run loads, and a run that
\* collects a post of the completed run before it does not fetch it
\* (violated: a post URL ending in a blank is written as it is and stripped
\* when it is loaded, so the next run does not find it in its visited set).
C21_UnprocessedPostsSkippedNext ==
    /\ (RunCompleted /\ posts # {}) =>
           \A p \in posts : NotProcessed(p) => p \in PersistedSet
    /\ (ScrapReturned /\ pastPosts # <<>> /\ pastPosts[Len(pastPosts)] # {}) =>
           \A p \in posts \cap pastPosts[Len(pastPosts)] : p \notin fetched


\* the number of leading entries of acts that are kind
RECURSIVE LeadingRun(_, _)
LeadingRun(acts, kind) ==
    IF acts # <<>> /\ Head(acts) = kind THEN 1 + LeadingRun(Tail(acts), kind) ELSE 0

\* acts without its leading entries of kind
DropRun(acts, kind) == SubSeq(acts, LeadingRun(acts, kind) + 1, Len(acts))

\* 3 to 6 scrolls down, 1 to 3 scrolls up, 1 to 3 page-down keys, then at
\* most one page-up key, and nothing else
NaturalPattern(acts) ==
    LET afterDown == DropRun(acts, "down")
        afterUp == DropRun(afterDown, "up")
        afterKeys == DropRun(afterUp, "page_down")
    IN  /\ LeadingRun(acts, "down") \in 3..6
        /\ LeadingRun(afterDown, "up") \in 1..3
        /\ LeadingRun(afterUp, "page_down") \in 1..3
        /\ afterKeys \in {<<>>, <<"page_up">>}

\* the page has been measured
Measured == dpc \in {"down", "up", "body", "keys", "pageup", "floor", "returned"}
               /\ "measure" \notin dFailed

\* C24: a call on a page with something to scroll in which no driver call
\* failed has issued 3 to 6 scrolls down, then 1 to 3 scrolls up, then 1 to 3
\* page-down keys, then at most one page-up key; every scroll target is between
\* 0 and the scrollable height; on a page with nothing to scroll nothing is issued
C24_ScrollSequence ==
    /\ (dpc = "returned" /\ dSpan > 0 /\ dFailed = {}) => NaturalPattern(dActs)
    /\ dPos \in 0..dSpan
    /\ (Measured /\ dSpan = 0) => dActs = <<>>

C24_Witness ==
    /\ dpc = "returned" /\ dFailed = {}
    /\ dActs = <<"down", "down", "down", "down", "down", "down", "up", "page_down",
                 "page_down", "page_up">>
    /\ dPos > 0 /\ dPos < dSpan


\* the selectors tried so far are the first ones of the list, in its order
TriedInOrder == \A i \in 1..Len(vTried) : vTried[i] = i

\* C22: the selectors are tried in the order of the list, at most one control
\* is clicked, no selector after the clicked one is tried, and
\* click_point_and_dwell returns true exactly when a control was clicked
\* (violated: an exception other than a timeout while waiting for the URL to
\* change is caught by the outer except clause, which goes on with the next
\* selector and can click again).
C22_FirstMatchWins ==
    /\ TriedInOrder
    /\ Len(vClicks) <= 1
    /\ vClicks # <<>> => \A i \in 1..Len(vTried) : vTried[i] <= vClicks[1]
    /\ (vpc = "next" /\ vShape = "claim" /\ vDwells > 0) =>
           (vResult = "true" <=> vClicks # <<>>)

\* C23 as stated: a link whose navigation succeeded has had dwell_and_scroll
\* run exactly once when its visit is over, and no click is attempted on a page
\* that is not a claim page
C23_DwellOncePerNavigation ==
    /\ (vpc = "next" /\ vNav = "ok") => vDwells = 1
    /\ vShape # "claim" => vTried = <<>>

\* C23, amended: the same for a link whose current URL could be read after the
\* navigation; when reading it fails the visit ends without click and dwell.
\* On a claim page the dwell comes after the click attempts, clicked or not.
C23_DwellOncePerReadPage ==
    /\ vDwells <= 1
    /\ (vpc = "next" /\ vNav = "ok") => vDwells = (IF vShape = "unread" THEN 0 ELSE 1)
    /\ vShape # "claim" => vTried = <<>>
    /\ (vShape = "claim" /\ vDwells = 1) =>
           (vClicks # <<>> \/ Len(vTried) = Len(Selectors))

C23_Witness ==
    /\ vpc = "next" /\ vNav = "ok"
    /\ vShape = "claim"
    /\ Len(vTried) = Len(Selectors) /\ vClicks = <<>>
    /\ vDwells = 1 /\ vResult = "false"

====
